---- MODULE Spec2Model ----
(***************************************************************************)
(* Model of jupyter_book/toc.py: the table-of-contents lookup (find_name), *)
(* the per-document toctree injection (add_toctree), the TOC loader        *)
(* (update_indexname) and the directory-to-tree generator                 *)
(* (_find_content_structure, build_toc).                                   *)
(*                                                                         *)
(* A Python string is modelled as a sequence of tokens; every token stands *)
(* for a non-empty run of characters.  The tokens "/" and "." are the path *)
(* separator and the dot, so pathlib's parsing, suffix stripping and the   *)
(* substring tests of the code are computed on the token sequences.        *)
(* A pathlib.Path is the sequence of its components (each a string).       *)
(***************************************************************************)
EXTENDS Integers, Sequences, FiniteSets, TLC

VARIABLES
    pc,          \* which entry point has run: "start", "generated", "found", "loaded"
    fs,          \* generation: the directory at the content root (nested listing)
    cwd,         \* absolute path of the process's working directory
    path,        \* generation: the `path` argument of build_toc, as parsed by Path()
    split_char,  \* generation: the `filename_split_char` argument
    skip_text,   \* generation: the caller's `skip_text` list
    structure,   \* generation: what build_toc produced (node) or raised
    pages,       \* lookup: the `pages` argument of find_name
    name,        \* lookup: the `name` argument of find_name
    found,       \* lookup: the value find_name returned
    tocfile,     \* injection: the parsed content of the persisted _toc.yml
    config,      \* injection: app.config (globaltoc_path, globaltoc, master_doc)
    sources,     \* injection: source[0] of every document
    call,        \* injection: the last add_toctree call and how it ended
    ncalls       \* injection: number of add_toctree calls made so far

vars == <<pc, fs, cwd, path, split_char, skip_text, structure,
          pages, name, found, tocfile, config, sources, call, ncalls>>

genVars == <<fs, cwd, path, split_char, skip_text, structure>>
findVars == <<pages, name, found>>
injVars == <<tocfile, config, sources, call, ncalls>>

\* Python's None
None == [none |-> TRUE]

----------------------------------------------------------------------------
(* Strings and paths *)

RECURSIVE SplitFrom(_, _, _)
\* str.split(c), continued: `cur` is the piece being accumulated
SplitFrom(s, c, cur) ==
    IF s = <<>> THEN <<cur>>
    ELSE IF Head(s) = c THEN <<cur>> \o SplitFrom(Tail(s), c, <<>>)
    ELSE SplitFrom(Tail(s), c, Append(cur, Head(s)))

\* str.split(c): the pieces between the occurrences of c, empty pieces kept
Split(s, c) == SplitFrom(s, c, <<>>)

RECURSIVE Join(_, _)
\* c.join(parts)
Join(parts, c) ==
    IF parts = <<>> THEN <<>>
    ELSE IF Len(parts) = 1 THEN parts[1]
    ELSE parts[1] \o <<c>> \o Join(Tail(parts), c)

\* `sub in s` for strings: sub occurs as a contiguous run of s
Contains(s, sub) ==
    \E i \in 1..(Len(s) - Len(sub) + 1) : SubSeq(s, i, i + Len(sub) - 1) = sub

IsComponent(c) == c # <<>> /\ c # <<".">>

\* Path(s): the components of a relative path; empty and "." components drop
PathOf(s) == SelectSeq(Split(s, "/"), IsComponent)

\* str(p)
PathStr(p) == IF p = <<>> THEN <<".">> ELSE Join(p, "/")

\* p.name
PathName(p) == IF p = <<>> THEN <<>> ELSE p[Len(p)]

\* p.parent
PathParent(p) == IF p = <<>> THEN <<>> ELSE SubSeq(p, 1, Len(p) - 1)

\* index of the last "." of a name, 0 when there is none (str.rfind, 1-based)
RFindDot(n) ==
    LET dots == {i \in 1..Len(n) : n[i] = "."}
    IN  IF dots = {} THEN 0 ELSE CHOOSE i \in dots : \A j \in dots : j <= i

\* PurePath.suffix of a name: from the last dot, unless the dot is the first
\* or the last character
NameSuffix(n) ==
    LET i == RFindDot(n)
    IN  IF 1 < i /\ i < Len(n) THEN SubSeq(n, i, Len(n)) ELSE <<>>

\* p.suffix
PathSuffix(p) == NameSuffix(PathName(p))

\* p.with_suffix("") for a path with a name
WithSuffixEmpty(p) ==
    LET n == PathName(p)
    IN  Append(PathParent(p), SubSeq(n, 1, Len(n) - Len(NameSuffix(n))))

\* _no_suffix(path) for a string
NoSuffix(s) == PathStr(WithSuffixEmpty(PathOf(s)))

----------------------------------------------------------------------------
(* utils.py: the helpers toc.py imports *)

\* SUPPORTED_FILE_SUFFIXES: the allow-list of content suffixes
SUPPORTED_FILE_SUFFIXES == {<<".", "md">>, <<".", "ipynb">>, <<".", "rst">>}

\* str.capitalize() of one token
Capital(tok) ==
    CASE tok = "index" -> "Index"
      [] tok = "book" -> "Book"
      [] tok = "ch1" -> "Ch1"
      [] tok = "a1" -> "A1"
      [] tok = "my" -> "My"
      [] tok = "new" -> "New"
      [] tok = "page" -> "Page"
      [] tok = "user" -> "User"
      [] tok = "guide" -> "Guide"
      [] tok = "v2" -> "V2"
      [] tok = "more" -> "More"
      [] tok = "info" -> "Info"
      [] tok = "draft" -> "Draft"
      [] tok = "appendix" -> "Appendix"
      [] tok = "parts" -> "Parts"
      [] tok = "deep" -> "Deep"
      [] OTHER -> tok

\* title-casing of one word: first character upper, the rest unchanged
\* (the names of the model are lower case)
Capitalize(word) ==
    IF word = <<>> THEN <<>> ELSE <<Capital(Head(word))>> \o Tail(word)

\* _filename_to_title(filename, split_char): split on split_char, title-case
\* every word, join with blanks
FilenameToTitle(filename, c) ==
    LET parts == Split(filename, c)
    IN  Join([i \in 1..Len(parts) |-> Capitalize(parts[i])], " ")

----------------------------------------------------------------------------
(* The filesystem read by generation *)

File(n) == [name |-> n, is_dir |-> FALSE, entries |-> <<>>]
Dir(n, es) == [name |-> n, is_dir |-> TRUE, entries |-> es]

\* path.iterdir() of the directory d found at path p: the paths of its
\* entries, in listing order
Iterdir(p, d) == [i \in 1..Len(d.entries) |-> Append(p, d.entries[i].name)]

\* the entry of directory d that the path q (one of Iterdir(p, d)) names
EntryAt(d, q) == CHOOSE e \in {d.entries[i] : i \in 1..Len(d.entries)} : e.name = PathName(q)

\* path.resolve(): relative paths are anchored at the working directory
Resolve(p) == cwd \o p

----------------------------------------------------------------------------
(* Generation: _content_path_to_yaml, _find_content_structure, build_toc *)

DefaultSplitChar == "_"
CHECKPOINTS == <<".", "ipynb_checkpoints">>

\* a slip: the title of an index page taken from its own name
ContentPathToYaml_OwnName(p, c) ==
    LET q == WithSuffixEmpty(p)
    IN  [file |-> PathStr(WithSuffixEmpty(q)), title |-> FilenameToTitle(PathName(q), c)]

\* _content_path_to_yaml(path, split_char)
ContentPathToYaml(p, c) ==
    LET q == WithSuffixEmpty(p)
        title == IF PathName(q) = <<"index">>
                 THEN FilenameToTitle(PathName(PathParent(Resolve(q))), c)
                 ELSE FilenameToTitle(PathName(q), c)
    IN  [file |-> PathStr(WithSuffixEmpty(q)), title |-> title]

\* list.pop(i) leaves the list without its element at (1-based) position i
Pop(s, i) == SubSeq(s, 1, i - 1) \o SubSeq(s, i + 1, Len(s))

RECURSIVE IndexLoop(_, _, _)
\* the loop of lines 158-160: `for ii, ifile in enumerate(content_files)`,
\* popping from the list it iterates.  ii is the 0-based position of the list
\* iterator; first_content is <<>> while it is None (a path is never empty)
IndexLoop(content_files, ii, first_content) ==
    IF ii >= Len(content_files)
    THEN [first_content |-> first_content, content_files |-> content_files]
    ELSE LET ifile == content_files[ii + 1]
         IN  IF PathName(WithSuffixEmpty(ifile)) = <<"index">>
             THEN IndexLoop(Pop(content_files, ii + 1), ii + 1, ifile)
             ELSE IndexLoop(content_files, ii + 1, first_content)

\* any(iskip in str(p) for iskip in skip_text)
Skipped(p, skip) == \E i \in 1..Len(skip) : Contains(PathStr(p), skip[i])

\* a slip: the empty `pages` list is left on the parent
DropEmptyPages_Kept(parent, all_pages) ==
    [file |-> parent.file, title |-> parent.title, pages |-> all_pages]

\* lines 183-185: the parent with its `pages`, the key popped when the list
\* is empty
DropEmptyPages(parent, all_pages) ==
    IF Len(all_pages) = 0
    THEN parent
    ELSE [file |-> parent.file, title |-> parent.title, pages |-> all_pages]

RECURSIVE FindContentStructure(_, _, _, _)
RECURSIVE FolderPages(_, _, _, _, _)

\* the loop of lines 174-181 over `folders`: the nodes appended to
\* parent["pages"]
FolderPages(p, d, folders, c, skip) ==
    IF folders = <<>> THEN <<>>
    ELSE LET folder == Head(folders)
             rest == FolderPages(p, d, Tail(folders), c, skip)
         IN  IF Skipped(folder, skip) THEN rest
             ELSE LET folder_out == FindContentStructure(folder, EntryAt(d, folder), c, skip)
                  IN  IF folder_out = None THEN rest ELSE <<folder_out>> \o rest

\* _find_content_structure(path, split_char, skip_text) on the directory d
\* that lives at path p; skip_arg is the caller's skip_text (None is replaced by
\* [] at lines 140-141)
FindContentStructure(p, d, c, skip_arg) ==
    LET skip == Append(skip_arg, CHECKPOINTS)
        listing == Iterdir(p, d)
        IsContent(q) == PathSuffix(q) \in SUPPORTED_FILE_SUFFIXES
        IsDir(q) == EntryAt(d, q).is_dir
        content_files == SelectSeq(listing, IsContent)
    IN  IF Len(content_files) = 0 THEN None
        ELSE LET loop == IndexLoop(content_files, 0, <<>>)
                 first_content == IF loop.first_content = <<>>
                                  THEN Head(loop.content_files)
                                  ELSE loop.first_content
                 rest_files == IF loop.first_content = <<>>
                               THEN Tail(loop.content_files)
                               ELSE loop.content_files
                 parent == ContentPathToYaml(first_content, c)
                 NotSkipped(q) == ~Skipped(q, skip)
                 kept == SelectSeq(rest_files, NotSkipped)
                 file_pages == [i \in 1..Len(kept) |->
                                   ContentPathToYaml(kept[i], DefaultSplitChar)]
                 folders == SelectSeq(listing, IsDir)
                 all_pages == file_pages \o FolderPages(p, d, folders, c, skip)
             IN  DropEmptyPages(parent, all_pages)

\* build_toc(path, filename_split_char, skip_text): the structure that is
\* dumped as YAML, or ValueError when there is none (pc = "no_content")
BuildToc ==
    /\ pc = "start"
    /\ structure' = FindContentStructure(path, fs, split_char, skip_text)
    /\ pc' = IF structure' = None THEN "no_content" ELSE "generated"
    /\ UNCHANGED <<fs, cwd, path, split_char, skip_text, findVars, injVars>>

----------------------------------------------------------------------------
(* Inputs of generation *)

MaxFiles == 3   \* content-root listing: at most this many files
MaxDirs == 2    \* content-root listing: at most this many sub-directories

RECURSIVE Listings(_, _)
\* the listings of at most n distinct entries drawn from S, in every order
Listings(S, n) ==
    IF n = 0 THEN {<<>>}
    ELSE {<<>>} \cup UNION {{<<x>> \o r : r \in Listings(S \ {x}, n - 1)} : x \in S}

IndexMd == <<"index", ".", "md">>
IndexIpynb == <<"index", ".", "ipynb">>
Ch1Md == <<"ch1", ".", "md">>
A1Md == <<"a1", ".", "md">>
MyNewPageMd == <<"my", "_", "new", "-", "page", ".", "md">>
NotesTxt == <<"notes", ".", "txt">>
DraftRst == <<"draft", ".", "rst">>

FilePool == {File(IndexMd), File(IndexIpynb), File(Ch1Md), File(MyNewPageMd),
             File(NotesTxt), File(DraftRst)}

DirPool ==
    { Dir(<<"appendix">>, <<File(A1Md)>>),
      Dir(<<"user", "-", "guide", "_", "v2">>,
          <<File(Ch1Md), File(IndexMd), File(MyNewPageMd),
            Dir(<<"more", "_", "info">>, <<File(MyNewPageMd), File(IndexIpynb)>>)>>),
      Dir(<<"parts">>, <<File(NotesTxt), Dir(<<"deep">>, <<File(A1Md)>>)>>),
      Dir(CHECKPOINTS, <<File(Ch1Md)>>) }

\* the content roots: a directory "book" that lists files, then directories
\* (the code reads the files and the directories of a listing separately, so
\* only the order within each kind matters)
Roots ==
    { Dir(<<"book">>, fl \o dl) :
        fl \in Listings(FilePool, MaxFiles), dl \in Listings(DirPool, MaxDirs) }

GenInit ==
    /\ pc = "start"
    /\ fs \in Roots
    /\ path \in {<<>>, <<fs.name>>}
    /\ cwd = IF path = <<>> THEN <<<<"home">>, fs.name>> ELSE <<<<"home">>>>
    /\ split_char \in {"_", "-"}
    /\ skip_text \in {<<>>, << <<"draft">> >>}
    /\ structure = None
    /\ pages = <<>> /\ name = <<>> /\ found = None
    /\ tocfile = None /\ config = None /\ sources = <<>>
    /\ call = None /\ ncalls = 0

GenNext == BuildToc

SpecGen == GenInit /\ [][GenNext]_vars

----------------------------------------------------------------------------
(* Lookup: find_name *)

\* the argument of find_name is a dict or a list: isinstance(pages, dict)
\* reads the tag
AsDict(v) == [type |-> "dict", value |-> v]
AsList(v) == [type |-> "list", value |-> v]

\* page.get(key, default)
Get(page, key, default) == IF key \in DOMAIN page THEN page[key] ELSE default

RECURSIVE FindName(_, _)
RECURSIVE FindNameLoop(_, _)

\* a slip: the children of a page that does not match are not searched
FindNameLoop_Flat(ps, n) ==
    IF ps = <<>> THEN None
    ELSE IF NoSuffix(Head(ps).file) = n THEN Head(ps)
         ELSE FindNameLoop(Tail(ps), n)

\* the loop of lines 26-33 over the list ps; falling off the loop returns None
FindNameLoop(ps, n) ==
    IF ps = <<>> THEN None
    ELSE LET page == Head(ps)
         IN  IF NoSuffix(page.file) = n THEN page
             ELSE LET sections == Get(page, "pages", <<>>)
                      sub == FindName(AsList(sections), n)
                  IN  IF sub # None THEN sub ELSE FindNameLoop(Tail(ps), n)

\* find_name(pages, name)
FindName(arg, n) ==
    FindNameLoop(IF arg.type = "dict" THEN <<arg.value>> ELSE arg.value, n)

\* one call of find_name on the chosen arguments
FindNameCall ==
    /\ pc = "start"
    /\ found' = FindName(pages, name)
    /\ pc' = "found"
    /\ UNCHANGED <<pages, name, genVars, injVars>>

----------------------------------------------------------------------------
(* Inputs of lookup *)

MaxNodes == 4   \* a searched tree or sibling list has at most this many nodes

FindFiles == {<<"a">>, <<"a", ".", "md">>, <<"d", "/", "b", ".", "md">>}
FindNames == {<<"a">>, <<"d", "/", "b">>, <<"a", ".", "md">>, <<"zz">>}

\* a node with the given file and children; no `pages` key without children
Node(f, sub) == IF sub = <<>> THEN [file |-> f] ELSE [file |-> f, pages |-> sub]

RECURSIVE Forests(_)
\* the sequences of sibling trees with exactly n nodes in all
Forests(n) ==
    IF n = 0 THEN {<<>>}
    ELSE UNION { { <<Node(f, sub)>> \o rest :
                     f \in FindFiles, sub \in Forests(k - 1), rest \in Forests(n - k) } :
                 k \in 1..n }

SiblingLists == UNION {Forests(n) : n \in 0..MaxNodes}
RootNodes == {l[1] : l \in {x \in SiblingLists : Len(x) = 1}}

FindInit ==
    /\ pc = "start"
    /\ \/ pages \in {AsDict(r) : r \in RootNodes}
       \/ pages \in {AsList(l) : l \in SiblingLists}
    /\ name \in FindNames
    /\ found = None
    /\ fs = None /\ cwd = <<>> /\ path = <<>> /\ split_char = "_"
    /\ skip_text = <<>> /\ structure = None
    /\ tocfile = None /\ config = None /\ sources = <<>>
    /\ call = None /\ ncalls = 0

FindNext == FindNameCall

SpecFind == FindInit /\ [][FindNext]_vars

----------------------------------------------------------------------------
(* Loading: update_indexname *)

\* bool(s) of a string
Truthy(s) == s # <<>>

\* update_indexname(app, config): app.config after the call, for the parsed
\* YAML `toc` (a dict, or a non-empty list whose first element becomes the
\* root and whose other elements become the root's pages)
UpdatedConfig(cfg, toc) ==
    IF ~Truthy(cfg.globaltoc_path) THEN cfg
    ELSE LET root == IF toc.type = "list"
                     THEN LET toc_updated == toc.value[1]
                          IN  IF Len(toc.value) > 1
                              THEN [k \in DOMAIN toc_updated \cup {"pages"} |->
                                       IF k = "pages" THEN Tail(toc.value)
                                       ELSE toc_updated[k]]
                              ELSE toc_updated
                     ELSE toc.value
         IN  [globaltoc_path |-> cfg.globaltoc_path,
              globaltoc |-> root,
              master_doc |-> NoSuffix(root.file)]

UpdateIndexname ==
    /\ pc = "start"
    /\ config' = UpdatedConfig(config, tocfile)
    /\ pc' = "loaded"
    /\ UNCHANGED <<tocfile, cwd, sources, call, ncalls, findVars,
                   fs, path, split_char, skip_text, structure>>

----------------------------------------------------------------------------
(* Injection: add_toctree *)

RECURSIVE NormFrom(_, _)
\* os.path.normpath of an absolute path, continued: acc is the normalised
\* prefix; "" and "." drop, ".." removes the last component (none at the root)
NormFrom(comps, acc) ==
    IF comps = <<>> THEN acc
    ELSE LET c == Head(comps)
         IN  IF c = <<>> \/ c = <<".">> THEN NormFrom(Tail(comps), acc)
             ELSE IF c = <<"..">>
                  THEN NormFrom(Tail(comps), PathParent(acc))
                  ELSE NormFrom(Tail(comps), Append(acc, c))

\* the components of os.path.abspath(s) for a relative path string s
AbsPath(s) == NormFrom(cwd \o Split(s, "/"), <<>>)

RECURSIVE CommonLen(_, _)
\* len(os.path.commonprefix([a, b])) for two component lists
CommonLen(a, b) ==
    IF a = <<>> \/ b = <<>> \/ Head(a) # Head(b) THEN 0
    ELSE 1 + CommonLen(Tail(a), Tail(b))

\* a slip: the child's path is left relative to the source root
RelPath_Unchanged(p, start) == p

\* os.path.relpath(p, start) for a non-empty path string p
RelPath(p, start) ==
    LET start_list == AbsPath(start)
        path_list == AbsPath(p)
        i == CommonLen(start_list, path_list)
        rel_list == [k \in 1..(Len(start_list) - i) |-> <<"..">>]
                      \o SubSeq(path_list, i + 1, Len(path_list))
    IN  IF rel_list = <<>> THEN <<".">> ELSE Join(rel_list, "/")

\* lines 58-67 for one child: its entry of the toctree
Section(page, child) ==
    LET path_parent_folder == PathParent(PathOf(page.file))
        path_sec == RelPath(child.file, PathStr(path_parent_folder))
    IN  IF "name" \in DOMAIN child /\ Truthy(child.name)
        THEN child.name \o <<" <">> \o path_sec \o <<">">>
        ELSE path_sec

\* lines 78-91: the directive text for the option block and the entries
\* (<fence> stands for the three backquotes of a fenced block)
ToctreeText(options, sections) ==
    <<"\n", "<fence>{toctree}", "\n", ":hidden:", "\n", ":titlesonly:", "\n">>
        \o options \o <<"\n", "\n">> \o Join(sections, "\n") \o <<"\n", "<fence>", "\n">>

\* nbformat: a notebook's text is the list of its cells
NbWrites(cells) == <<"{cells: [">> \o Join(cells, ", ") \o <<"]}">>
NbReads(s) ==
    LET body == SubSeq(s, 2, Len(s) - 1)
    IN  IF body = <<>> THEN <<>> ELSE Split(body, ", ")
NewMarkdownCell(text) == <<"{markdown: ">> \o text \o <<"}">>

Returned(source) == [raised |-> "", message |-> <<>>, source |-> source]

\* a slip: a page missing from the TOC is passed over in silence
MissingPage_Silent(p, source) == Returned(source)

\* lines 48-51: the page is not in the TOC
MissingPage(p, source) ==
    [raised |-> "FileNotFoundError",
     message |-> <<"The following path in your table of contents couldn't be found:\n\n">>
                   \o p \o <<".\n\nDouble check your _toc.yml file to make sure the paths are correct.">>,
     source |-> source]

\* a slip: any other suffix is written like markdown
InjectByFormat_AllMarkdown(p, source, toctree) ==
    IF PathSuffix(PathOf(p)) = <<".", "ipynb">>
    THEN Returned(NbWrites(Append(NbReads(source), NewMarkdownCell(toctree))))
    ELSE Returned(source \o toctree \o <<"\n">>)

\* lines 92-103: the directive goes into the source according to the suffix
InjectByFormat(p, source, toctree) ==
    LET suff == PathSuffix(PathOf(p))
    IN  IF suff = <<".", "md">>
        THEN Returned(source \o toctree \o <<"\n">>)
        ELSE IF suff = <<".", "ipynb">>
        THEN Returned(NbWrites(Append(NbReads(source), NewMarkdownCell(toctree))))
        ELSE [raised |-> "ValueError",
              message |-> <<"Only markdown and ipynb files are supported.">>,
              source |-> source]

\* app.env.doc2path(docname, base=None): the document's path with the suffix
\* of its source file
Doc2Path(doc) == doc.docname \o doc.suffix

\* add_toctree(app, docname, source): how the call ends and source[0] after it
AddToctreeRun(doc, source) ==
    IF ~Truthy(config.globaltoc_path) THEN Returned(source)
    ELSE LET p == Doc2Path(doc)
             toc == config.globaltoc
             page == FindName(AsDict(toc), NoSuffix(p))
         IN  IF page = None THEN MissingPage(p, source)
             ELSE LET children == Get(page, "pages", <<>>)
                      sections == [i \in 1..Len(children) |-> Section(page, children[i])]
                      options == IF Get(page, "numbered", FALSE)
                                 THEN <<":numbered:">> ELSE <<>>
                  IN  IF Len(children) = 0 THEN Returned(source)
                      ELSE InjectByFormat(p, source, ToctreeText(options, sections))

RECURSIVE RewriteChildren(_, _)
\* the tree with the `file` of the children of the page named n made relative
RewriteChildren(node, n) ==
    LET kids == Get(node, "pages", <<>>)
    IN  IF kids = <<>> THEN node
        ELSE [k \in DOMAIN node |->
                IF k # "pages" THEN node[k]
                ELSE [i \in 1..Len(kids) |->
                        IF NoSuffix(node.file) = n
                        THEN [j \in DOMAIN kids[i] |->
                                IF j = "file"
                                THEN RelPath(kids[i].file, PathStr(PathParent(PathOf(node.file))))
                                ELSE kids[i][j]]
                        ELSE RewriteChildren(kids[i], n)]]

\* a slip: the relative paths are written back into the children's dicts
TocAfterCall_InPlace(doc) ==
    IF ~Truthy(config.globaltoc_path) THEN config.globaltoc
    ELSE RewriteChildren(config.globaltoc, NoSuffix(Doc2Path(doc)))

\* app.config["globaltoc"] after add_toctree: the call reads the tree and
\* assigns only to its locals (`sections` is a fresh list, line 54)
TocAfterCall(doc) == config.globaltoc

MaxCalls == 3   \* add_toctree calls per run

AddToctree(doc) ==
    /\ pc = "loaded"
    /\ ncalls < MaxCalls
    /\ LET r == AddToctreeRun(doc, sources[doc])
       IN  /\ sources' = [sources EXCEPT ![doc] = r.source]
           /\ call' = [doc |-> doc, path |-> Doc2Path(doc),
                       raised |-> r.raised, message |-> r.message]
    /\ config' = [config EXCEPT !.globaltoc = TocAfterCall(doc)]
    /\ ncalls' = ncalls + 1
    /\ UNCHANGED <<pc, tocfile, cwd, findVars, fs, path, split_char, skip_text, structure>>

----------------------------------------------------------------------------
(* Inputs of injection *)

MaxChildren == 2   \* children of the nested parent page

Doc(n, suff) == [docname |-> n, suffix |-> suff]

Docs ==
    { Doc(<<"index">>, <<".", "md">>),
      Doc(<<"sub", "/", "index">>, <<".", "ipynb">>),
      Doc(<<"sub", "/", "ch1">>, <<".", "md">>),
      Doc(<<"notes">>, <<".", "rst">>),
      Doc(<<"plain">>, <<".", "rst">>),
      Doc(<<"missing">>, <<".", "md">>) }

\* the source of a document before the build touches it
InitialSource(doc) ==
    IF doc.suffix = <<".", "ipynb">>
    THEN NbWrites(<< <<"{code: ">> \o doc.docname \o <<"}">> >>)
    ELSE <<"# ">> \o doc.docname \o <<"\n">>

ChildPool ==
    { [file |-> <<"sub", "/", "ch1">>, name |-> <<"Chapter One">>],
      [file |-> <<"other", "/", "x">>],
      [file |-> <<"sub", "/", "deep", "/", "y", ".", "md">>, name |-> <<>>],
      [file |-> <<"top">>, name |-> <<"Top">>] }

SubPages ==
    { IF ps = <<>> THEN [file |-> <<"sub", "/", "index">>, name |-> <<"Sub">>]
      ELSE [file |-> <<"sub", "/", "index">>, name |-> <<"Sub">>, pages |-> ps] :
        ps \in Listings(ChildPool, MaxChildren) }

NotesPage == [file |-> <<"notes">>, pages |-> <<[file |-> <<"sub", "/", "ch1">>]>>]
PlainPage == [file |-> <<"plain", ".", "rst">>]

\* the parsed _toc.yml files: single roots and flat lists
TocDicts ==
    { [file |-> <<"index">>, pages |-> <<sub, NotesPage, PlainPage>>] : sub \in SubPages }
    \cup { [file |-> <<"index", ".", "md">>, numbered |-> TRUE,
            pages |-> <<PlainPage, sub>>] : sub \in SubPages }
    \cup { [file |-> <<"index">>,
            pages |-> <<[file |-> <<"sub", "/", "ch1">>, name |-> <<"Chapter One">>]>>] }

TocLists ==
    { <<[file |-> <<"index">>], sub, NotesPage, PlainPage>> : sub \in SubPages }
    \cup { <<[file |-> <<"index">>, pages |-> <<PlainPage>>], sub>> : sub \in SubPages }

InjInit ==
    /\ pc = "start"
    /\ \/ tocfile \in {AsDict(t) : t \in TocDicts}
       \/ tocfile \in {AsList(t) : t \in TocLists}
    /\ config \in {[globaltoc_path |-> gp, globaltoc |-> None, master_doc |-> <<>>] :
                     gp \in {<<>>, <<"_toc", ".", "yml">>}}
    /\ cwd = << <<"srv">>, <<"docs">> >>
    /\ sources = [d \in Docs |-> InitialSource(d)]
    /\ call = [doc |-> Doc(<<>>, <<>>), path |-> <<>>, raised |-> "", message |-> <<>>]
    /\ ncalls = 0
    /\ pages = <<>> /\ name = <<>> /\ found = None
    /\ fs = None /\ path = <<>> /\ split_char = "_"
    /\ skip_text = <<>> /\ structure = None

InjNext == UpdateIndexname \/ \E d \in Docs : AddToctree(d)

SpecInject == InjInit /\ [][InjNext]_vars

----------------------------------------------------------------------------
(* Vocabulary of the properties *)

\* the children of a node, empty when it has no `pages` key
PagesOf(node) == IF "pages" \in DOMAIN node THEN node.pages ELSE <<>>

RECURSIVE Preorder(_)
\* the nodes of a sequence of sibling trees in depth-first pre-order
Preorder(ns) ==
    IF ns = <<>> THEN <<>>
    ELSE <<Head(ns)>> \o Preorder(PagesOf(Head(ns))) \o Preorder(Tail(ns))

\* the nodes of the generated tree (none when generation found no content)
GeneratedNodes == IF structure = None THEN <<>> ELSE Preorder(<<structure>>)

\* the skip-markers in force: the caller's and the checkpoint marker
Markers == {skip_text[i] : i \in 1..Len(skip_text)} \cup {CHECKPOINTS}

HasMarker(p) == \E m \in Markers : Contains(PathStr(p), m)

EntriesOf(d) == {d.entries[i] : i \in 1..Len(d.entries)}

HasSupportedSuffix(e) == NameSuffix(e.name) \in SUPPORTED_FILE_SUFFIXES

\* the stem of a file name
Stem(n) == SubSeq(n, 1, Len(n) - Len(NameSuffix(n)))

RECURSIVE ContentFilesUnder(_, _)
\* the paths of the content files under the directory d at path p: files
\* with a supported suffix whose path contains no skip-marker
ContentFilesUnder(p, d) ==
    {Append(p, e.name) : e \in {x \in EntriesOf(d) :
        ~x.is_dir /\ HasSupportedSuffix(x) /\ ~HasMarker(Append(p, x.name))}}
    \cup UNION {ContentFilesUnder(Append(p, e.name), e) :
                  e \in {x \in EntriesOf(d) : x.is_dir}}

\* the suffix-stripped path of a file, as a string
Stripped(q) == PathStr(Append(PathParent(q), Stem(PathName(q))))

\* number of nodes of the generated tree whose `file` is f
NodeCount(f) == Cardinality({i \in 1..Len(GeneratedNodes) : GeneratedNodes[i].file = f})

\* a directory yields a node when it lists an entry with a supported suffix
Yields(d) == \E e \in EntriesOf(d) : HasSupportedSuffix(e)

\* the sub-directories of d (at path p) that generation enters and that
\* yield a node, in listing order
YieldingDirs(p, d) ==
    LET Enters(e) == e.is_dir /\ ~HasMarker(Append(p, e.name)) /\ Yields(e)
    IN  SelectSeq(d.entries, Enters)

RECURSIVE Visited(_, _, _)
\* the directories generation visits below (and including) the directory d
\* at path p, each with the node of the returned tree produced for it: the
\* nodes of the yielding sub-directories are the last children of the node
Visited(p, d, node) ==
    LET sub == YieldingDirs(p, d)
        off == Len(PagesOf(node)) - Len(sub)
    IN  {[path |-> p, dir |-> d, node |-> node]}
        \cup UNION {Visited(Append(p, sub[k].name), sub[k], PagesOf(node)[off + k]) :
                      k \in 1..Len(sub)}

VisitedDirs == IF pc = "generated" THEN Visited(path, fs, structure) ELSE {}

\* the index-stemmed content files a directory lists
IndexFiles(d) ==
    {e \in EntriesOf(d) : ~e.is_dir /\ HasSupportedSuffix(e) /\ Stem(e.name) = <<"index">>}

\* position of the entry named n in the listing of d
PositionOf(d, n) == CHOOSE i \in 1..Len(d.entries) : d.entries[i].name = n

----------------------------------------------------------------------------
(* Properties of generation *)

\* C1: every content file under the content root (supported suffix, no
\* skip-marker in its path) is the `file` of exactly one node of the returned
\* tree: as many nodes carry a suffix-stripped path as content files have it.
C1_EveryContentFileOnce ==
    pc # "start" =>
        \A q \in ContentFilesUnder(path, fs) :
            NodeCount(Stripped(q)) =
                Cardinality({r \in ContentFilesUnder(path, fs) : Stripped(r) = Stripped(q)})

\* C3: in every visited directory that lists an index-stemmed content file,
\* the node produced for the directory has the index file as its `file` and
\* the title of the directory's name split on the split character, not the
\* title of the word "index".
C3_IndexIsParent ==
    \A v \in VisitedDirs :
        IndexFiles(v.dir) # {} =>
            /\ v.node.file = PathStr(Append(v.path, <<"index">>))
            /\ v.node.title = FilenameToTitle(PathName(cwd \o v.path), split_char)
            /\ v.node.title # FilenameToTitle(<<"index">>, split_char)

\* C3 witness: a nested directory whose index file is not listed first got
\* its node, under a split character that occurs in the directory's name
C3_Witness ==
    \E v \in VisitedDirs :
        /\ v.path # path
        /\ \E e \in IndexFiles(v.dir) : PositionOf(v.dir, e.name) > 1
        /\ split_char \in {PathName(v.path)[i] : i \in 1..Len(PathName(v.path))}
        /\ v.node.file = PathStr(Append(v.path, <<"index">>))

\* C4: no node of the returned tree has an empty `pages`, and a directory
\* whose sub-directories yield nothing and whose content files other than
\* its parent file are all skipped has a node without `pages`.
C4_NoEmptyPages ==
    /\ \A i \in 1..Len(GeneratedNodes) :
          "pages" \in DOMAIN GeneratedNodes[i] => Len(GeneratedNodes[i].pages) > 0
    /\ \A v \in VisitedDirs :
          LET content == {Append(v.path, e.name) :
                            e \in {x \in EntriesOf(v.dir) : HasSupportedSuffix(x)}}
              parents == {q \in content : Stripped(q) = v.node.file}
          IN  ( /\ YieldingDirs(v.path, v.dir) = <<>>
                /\ Cardinality(parents) = 1
                /\ \A q \in content \ parents : HasMarker(q) )
              => "pages" \notin DOMAIN v.node

\* C4 witness: a directory with a skipped file and a barren sub-directory
\* got a node without `pages`
C4_Witness ==
    \E v \in VisitedDirs :
          /\ "pages" \notin DOMAIN v.node
          /\ \E e \in EntriesOf(v.dir) : ~e.is_dir /\ HasSupportedSuffix(e)
                                           /\ HasMarker(Append(v.path, e.name))
                                           /\ Stripped(Append(v.path, e.name)) # v.node.file
          /\ \E e \in EntriesOf(v.dir) : e.is_dir /\ ~Yields(e)

\* the example: book/ lists index.md, ch1.md and appendix/ holding a1.md
BookListings ==
    { fl \o <<Dir(<<"appendix">>, <<File(A1Md)>>)>> :
        fl \in Listings({File(IndexMd), File(Ch1Md)}, 2) \ Listings({File(IndexMd), File(Ch1Md)}, 1) }

ExpectedBook ==
    [file |-> <<"index">>, title |-> <<"Book">>,
     pages |-> << [file |-> <<"ch1">>, title |-> <<"Ch1">>],
                  [file |-> <<"appendix", "/", "a1">>, title |-> <<"A1">>] >>]

\* C7: generation on book/ (index.md, ch1.md, appendix/a1.md) returns the
\* root {file: index, title: Book, pages: [{ch1, Ch1}, {appendix/a1, A1}]},
\* every `file` relative to the content root.
C7_BookExample ==
    (pc # "start" /\ fs.name = <<"book">> /\ fs.entries \in BookListings)
        => structure = ExpectedBook

\* the name a node's title is to be derived from: the containing directory's
\* for an index node, the file's own stem otherwise
TitleName(node) ==
    LET q == PathOf(node.file)
    IN  IF PathName(q) = <<"index">> THEN PathName(cwd \o PathParent(q)) ELSE PathName(q)

\* C10: under a split character other than the default, the title of every
\* node of the generated tree is its name split on that character.
C10_SplitCharEverywhere ==
    split_char # DefaultSplitChar =>
        \A i \in 1..Len(GeneratedNodes) :
            GeneratedNodes[i].title = FilenameToTitle(TitleName(GeneratedNodes[i]), split_char)

----------------------------------------------------------------------------
(* Properties of lookup *)

\* the nodes find_name was given, in depth-first pre-order
SearchedNodes ==
    Preorder(IF pages.type = "dict" THEN <<pages.value>> ELSE pages.value)

\* positions (in pre-order) of the nodes whose suffix-stripped file is `name`
Matches == {i \in 1..Len(SearchedNodes) : NoSuffix(SearchedNodes[i].file) = name}

\* C2: find_name returns None exactly when no node of the tree has a
\* suffix-stripped `file` equal to the name, and otherwise the first such
\* node in depth-first pre-order.
C2_FirstInPreorder ==
    pc = "found" =>
        /\ (found = None) <=> (Matches = {})
        /\ Matches # {} =>
              found = SearchedNodes[CHOOSE i \in Matches : \A j \in Matches : i <= j]

\* C2 witness: a nested node was returned although a later node, at the top
\* level, matches as well
C2_Witness ==
    /\ pc = "found" /\ found # None
    /\ Cardinality(Matches) > 1
    /\ pages.type = "list"
    /\ \A i \in 1..Len(pages.value) : pages.value[i] # found

----------------------------------------------------------------------------
(* Properties of injection *)

Configured == config.globaltoc_path # <<>>

\* the nodes of the loaded tree in depth-first pre-order
TocNodes == IF pc = "loaded" /\ Configured THEN Preorder(<<config.globaltoc>>) ELSE <<>>

\* positions of the nodes of the loaded tree that stand for the document
NodesFor(d) ==
    LET nodes == TocNodes
        id == NoSuffix(Doc2Path(d))
    IN  {i \in 1..Len(nodes) : NoSuffix(nodes[i].file) = id}

\* the node of the document: the first one in pre-order
PageOf(d) ==
    LET at == NodesFor(d)
    IN  TocNodes[CHOOSE i \in at : \A j \in at : i <= j]

\* the step is a call of add_toctree for the document d, TOC configured
CallOf(d) ==
    pc = "loaded" /\ Configured /\ ncalls' = ncalls + 1 /\ call'.doc = d

MarkupFormats == {<<".", "md">>, <<".", "ipynb">>}

\* C5: a call for a document without a node in the loaded tree fails with an
\* error whose message names the document's path and leaves every source
\* buffer as it was.
C5_MissingPageFails ==
    [][\A d \in Docs :
         (CallOf(d) /\ NodesFor(d) = {}) =>
             /\ call'.raised = "FileNotFoundError"
             /\ Contains(call'.message, Doc2Path(d))
             /\ sources' = sources]_vars

\* C5 witness: the call for the document that is not in the tree has failed,
\* after an injection into another document
C5_Witness ==
    /\ pc = "loaded" /\ Configured
    /\ NodesFor(call.doc) = {}
    /\ call.raised = "FileNotFoundError"
    /\ \E d \in Docs : sources[d] # InitialSource(d)

\* C6 as stated: a call for a document that has a node and whose format is
\* neither .md nor .ipynb fails with the unsupported-format error, children
\* or not, the source buffers unchanged.
C6_UnsupportedAlwaysFails ==
    [][\A d \in Docs :
         (CallOf(d) /\ NodesFor(d) # {} /\ d.suffix \notin MarkupFormats) =>
             /\ call'.raised = "ValueError"
             /\ sources' = sources]_vars

\* C6 amended: such a call fails with the unsupported-format error when the
\* document's node has at least one child and returns without an error when
\* it has none; the source buffers are unchanged either way.
C6_UnsupportedFailsWithChildren ==
    [][\A d \in Docs :
         (CallOf(d) /\ d.suffix \notin MarkupFormats /\ NodesFor(d) # {}) =>
             LET kids == PagesOf(PageOf(d))
             IN  /\ kids # <<>> => call'.raised = "ValueError"
                 /\ kids = <<>> => call'.raised = ""
                 /\ sources' = sources]_vars

\* C6 witness: the call for an .rst document whose node has children failed
C6_Witness ==
    /\ pc = "loaded" /\ Configured
    /\ call.doc.suffix \notin MarkupFormats
    /\ NodesFor(call.doc) # {}
    /\ PagesOf(PageOf(call.doc)) # <<>>
    /\ call.raised = "ValueError"

RECURSIVE SourceAfter(_, _)
\* the source of document d after k calls of add_toctree for it
SourceAfter(d, k) ==
    IF k = 0 THEN InitialSource(d) ELSE AddToctreeRun(d, SourceAfter(d, k - 1)).source

\* C8: once the tree is loaded no call changes it (nor the rest of the
\* configuration), a call changes no source buffer but its own document's,
\* and the source of a document is determined by the number of calls made
\* for it, whatever was processed in between.
C8_TreeReadOnly ==
    /\ [][pc = "loaded" =>
            /\ config' = config
            /\ \A d \in Docs : d # call'.doc => sources'[d] = sources[d]]_vars
    /\ [](pc = "loaded" =>
            \A d \in Docs : \E k \in 0..ncalls : sources[d] = SourceAfter(d, k))

\* C8 witness: three calls were made, two documents got a directive and the
\* last call failed
C8_Witness ==
    /\ pc = "loaded" /\ Configured /\ ncalls = MaxCalls
    /\ Cardinality({d \in Docs : sources[d] # InitialSource(d)}) >= 2
    /\ call.raised # ""

\* the lines of the directive a step put into the source of d
NewDirectiveLines(d) ==
    LET text == IF d.suffix = <<".", "ipynb">>
                THEN LET cells == NbReads(sources'[d])
                         cell == cells[Len(cells)]
                     IN  SubSeq(cell, 2, Len(cell) - 1)
                ELSE SubSeq(sources'[d], Len(sources[d]) + 1, Len(sources'[d]))
    IN  Split(text, "\n")

\* the entries of a directive: its lines after the blank line that follows
\* the option line, up to the closing fence
DirectiveEntries(lines) ==
    LET ls == lines
        fences == {k \in 7..Len(ls) : ls[k] = <<"<fence>">>}
        close == CHOOSE k \in fences : \A j \in fences : k <= j
    IN  SubSeq(ls, 7, close - 1)

\* rel leads from the directory dir to the target: it climbs with ".." first,
\* then descends, ends at the target and climbs no further than it must
LeadsTo(rel, dir, target) ==
    LET relc == Split(rel, "/")
        ups == Cardinality({i \in 1..Len(relc) : relc[i] = <<"..">>})
        downs == SubSeq(relc, ups + 1, Len(relc))
    IN  /\ \A i \in 1..ups : relc[i] = <<"..">>
        /\ \A i \in 1..Len(downs) : downs[i] \notin {<<>>, <<".">>}
        /\ ups <= Len(dir)
        /\ SubSeq(dir, 1, Len(dir) - ups) \o downs = target
        /\ (ups > 0 /\ downs # <<>>) => downs[1] # dir[Len(dir) - ups + 1]

\* the entry of one child in the directive of its parent page
EntryOK(page, child, entry) ==
    LET labelled == "name" \in DOMAIN child /\ child.name # <<>>
        rel == IF labelled
               THEN SubSeq(entry, Len(child.name) + 2, Len(entry) - 1)
               ELSE entry
    IN  /\ labelled => entry = child.name \o <<" <">> \o rel \o <<">">>
        /\ LeadsTo(rel, PathParent(PathOf(page.file)), PathOf(child.file))

IndexMdDoc == Doc(<<"index">>, <<".", "md">>)
SubIndexDoc == Doc(<<"sub", "/", "index">>, <<".", "ipynb">>)

\* C9: the directive a call injects lists one entry per child of the
\* document's node, in the order of its pages; each entry is the child's file
\* relative to the directory of the parent's file, written "label <path>"
\* when the child has a label and "path" otherwise.  Parent index with the
\* child {file: sub/ch1, name: Chapter One} gets "Chapter One <sub/ch1>".
C9_RelativeEntries ==
    /\ [][\A d \in Docs :
            (CallOf(d) /\ sources'[d] # sources[d]) =>
                LET page == PageOf(d)
                    kids == PagesOf(page)
                    entries == DirectiveEntries(NewDirectiveLines(d))
                IN  /\ Len(entries) = Len(kids)
                    /\ \A i \in 1..Len(kids) : EntryOK(page, kids[i], entries[i])]_vars
    /\ []((/\ pc = "loaded" /\ Configured
           /\ sources[IndexMdDoc] # InitialSource(IndexMdDoc)
           /\ PagesOf(config.globaltoc) =
                 <<[file |-> <<"sub", "/", "ch1">>, name |-> <<"Chapter One">>]>>)
          => Contains(sources[IndexMdDoc],
                      <<"\n", "Chapter One", " <", "sub", "/", "ch1", ">", "\n">>))

\* C9 witness: a directive went into the nested parent sub/index with a
\* labelled child beside it and an unlabelled child in another directory
C9_Witness ==
    /\ pc = "loaded" /\ Configured
    /\ Contains(sources[SubIndexDoc], <<"\n", "Chapter One", " <", "ch1", ">", "\n">>)
    /\ Contains(sources[SubIndexDoc], <<"\n", "..", "/", "other", "/", "x", "\n">>)

====
